---------------------------- MODULE Spec2Model ----------------------------
(***************************************************************************)
(* A model of babel-encoding (src/src/main.rs): the byte <-> babel text    *)
(* transform, the page <-> number codec, the address codec, and the two    *)
(* file operations encode_file and decode_file with their parallel maps.   *)
(*                                                                         *)
(* Text is a sequence of character codes (97 is 'a', 46 is '.', 58 is      *)
(* ':'), so that the u8 arithmetic of babel_text_to_bytes and the digit    *)
(* tables of the codecs are computed as the code computes them.  A BigInt  *)
(* is an integer.  A function that can panic returns a record              *)
(* [ok, val]: ok = FALSE is the panic.                                     *)
(*                                                                         *)
(* LENGTH_OF_PAGE and the two parallel thresholds are scaled down (3239 -> *)
(* 3, 1024 -> 1, 2048 -> 2) so that pages, multi-page files and both paths *)
(* of the byte codec are within reach of model checking; the page length   *)
(* stays odd, so a byte's two letters can straddle two pages, as in the    *)
(* program.                                                                *)
(***************************************************************************)
EXTENDS Integers, Sequences, FiniteSets, TLC

LENGTH_OF_PAGE == 3
PAD_CHAR == 46
PAR_BYTES_THRESHOLD == 1
PAR_CHARS_THRESHOLD == 2

\* gen_range upper limits of search
NUM_WALLS == 4
NUM_SHELVES == 5
NUM_VOLUMES == 32
NUM_PAGES == 410

(* ------------------------------ bounds --------------------------------- *)
\* longest input file, in bytes
MaxBytes == 3
\* largest page index drawn (of 0 .. NUM_PAGES - 1)
MaxPageIdx == 6

(* ------------------------------ helpers -------------------------------- *)
Ok(v) == [ok |-> TRUE, val |-> v]
Panic == [ok |-> FALSE, val |-> <<>>]

\* "a".repeat(n), PAD_CHAR.to_string().repeat(n)
repeat(c, n) == [i \in 1 .. n |-> c]

Min(a, b) == IF a < b THEN a ELSE b

\* iter().position(|&x| x == c): 0-based, -1 for None
position(tbl, c) ==
    IF \E i \in 1 .. Len(tbl) : tbl[i] = c
    THEN (CHOOSE i \in 1 .. Len(tbl) : tbl[i] = c /\ \A j \in 1 .. i - 1 : tbl[j] # c) - 1
    ELSE -1

\* "abcdefghijklmnopqrstuvwxyz, ."
digits29 == [i \in 1 .. 26 |-> 96 + i] \o <<44, 32, 46>>

\* "0123456789ABCDEFGHIJKLMNOPQRSTUVWXYZ"
digits36 == [i \in 1 .. 10 |-> 47 + i] \o [i \in 1 .. 26 |-> 64 + i]

\* str::trim_end_matches(PAD_CHAR)
RECURSIVE trim_end_matches(_, _)
trim_end_matches(s, c) ==
    IF Len(s) > 0 /\ s[Len(s)] = c
    THEN trim_end_matches(SubSeq(s, 1, Len(s) - 1), c)
    ELSE s

\* calculate_loc_mult: 30^length
RECURSIVE calculate_loc_mult(_)
calculate_loc_mult(length) ==
    IF length = 0 THEN 1 ELSE 30 * calculate_loc_mult(length - 1)

(* --------------------------- ByteTextCodec ----------------------------- *)
\* the closure of both paths of bytes_to_babel_text: one byte, two letters
byte_to_letters(byte) == <<97 + (byte \div 26), 97 + (byte % 26)>>

\* bytes.iter().map(..).collect(): left to right
RECURSIVE bytes_to_text_seq(_)
bytes_to_text_seq(bytes) ==
    IF bytes = <<>> THEN <<>>
    ELSE byte_to_letters(Head(bytes)) \o bytes_to_text_seq(Tail(bytes))

\* bytes.par_iter().map(..).collect(): the slice is split in halves, the
\* halves are mapped independently and their strings joined in slice order
RECURSIVE bytes_to_text_par(_)
bytes_to_text_par(bytes) ==
    IF Len(bytes) <= 1 THEN bytes_to_text_seq(bytes)
    ELSE LET mid == Len(bytes) \div 2
         IN  bytes_to_text_par(SubSeq(bytes, 1, mid))
                 \o bytes_to_text_par(SubSeq(bytes, mid + 1, Len(bytes)))

bytes_to_babel_text(bytes) ==
    IF Len(bytes) > PAR_BYTES_THRESHOLD
    THEN bytes_to_text_par(bytes)
    ELSE bytes_to_text_seq(bytes)

\* u8 arithmetic: with overflow checks (debug profile) an out-of-range
\* result panics, without them (release profile) it wraps modulo 256
u8_op(r, checks) ==
    IF r >= 0 /\ r <= 255 THEN Ok(r)
    ELSE IF checks THEN Panic ELSE Ok(r % 256)

\* letters_to_byte with the two letters' weights exchanged
letters_to_byte_swapped(c0, c1, checks) ==
    LET d0 == u8_op((c0 % 256) - 97, checks)
        s  == u8_op((c1 % 256) - 97, checks)
        f  == IF s.ok THEN u8_op(s.val * 26, checks) ELSE Panic
    IN  IF f.ok /\ d0.ok THEN u8_op(f.val + d0.val, checks) ELSE Panic

\* the closure of both paths of babel_text_to_bytes:
\*   first = (chunk[0] as u8 - b'a') * 26; second = chunk[1] as u8 - b'a';
\*   first + second
letters_to_byte(c0, c1, checks) ==
    LET d0 == u8_op((c0 % 256) - 97, checks)
        f  == IF d0.ok THEN u8_op(d0.val * 26, checks) ELSE Panic
        s  == u8_op((c1 % 256) - 97, checks)
    IN  IF f.ok /\ s.ok THEN u8_op(f.val + s.val, checks) ELSE Panic

\* chars.chunks(2) with the chunks of length 2 kept, left to right
RECURSIVE text_to_bytes_seq(_, _)
text_to_bytes_seq(chars, checks) ==
    IF Len(chars) < 2 THEN Ok(<<>>)
    ELSE LET b    == letters_to_byte(chars[1], chars[2], checks)
             rest == text_to_bytes_seq(SubSeq(chars, 3, Len(chars)), checks)
         IN  IF b.ok /\ rest.ok THEN Ok(<<b.val>> \o rest.val) ELSE Panic

\* chars.par_chunks(2).filter(..).map(..).collect(): the chunk list is split
\* in halves, mapped independently, and the parts joined in chunk order; a
\* panic in either half is the panic of the whole
RECURSIVE text_to_bytes_par(_, _)
text_to_bytes_par(chars, checks) ==
    IF Len(chars) <= 2 THEN text_to_bytes_seq(chars, checks)
    ELSE LET nchunks == (Len(chars) + 1) \div 2
             mid     == 2 * (nchunks \div 2)
             l       == text_to_bytes_par(SubSeq(chars, 1, mid), checks)
             r       == text_to_bytes_par(SubSeq(chars, mid + 1, Len(chars)), checks)
         IN  IF l.ok /\ r.ok THEN Ok(l.val \o r.val) ELSE Panic

babel_text_to_bytes(text, checks) ==
    LET chars == trim_end_matches(text, PAD_CHAR)
    IN  IF Len(chars) > PAR_CHARS_THRESHOLD
        THEN text_to_bytes_par(chars, checks)
        ELSE text_to_bytes_seq(chars, checks)

(* -------------------------- PageNumberCodec ---------------------------- *)
\* string_to_number: a character that is not in the table is skipped
RECURSIVE string_to_number_from(_, _, _)
string_to_number_from(input, k, result) ==
    IF k > Len(input) THEN result
    ELSE LET pos == position(digits29, input[k])
         IN  string_to_number_from(input, k + 1,
                 IF pos >= 0 THEN result * 29 + pos ELSE result)

string_to_number(input) == string_to_number_from(input, 1, 0)

\* the while loop of int_to_base36 and of to_text, with the final reverse:
\* most significant digit first; empty when x <= 0
RECURSIVE radix_digits(_, _, _)
radix_digits(x, base, tbl) ==
    IF x > 0
    THEN radix_digits(x \div base, base, tbl) \o <<tbl[(x % base) + 1]>>
    ELSE <<>>

int_to_base36(x) ==
    IF x = 0 THEN <<48>> ELSE radix_digits(x, 36, digits36)

to_text(x) ==
    IF x = 0 THEN <<97>>
    ELSE LET text == radix_digits(x, 29, digits29)
         IN  IF Len(text) < LENGTH_OF_PAGE
             THEN repeat(97, LENGTH_OF_PAGE - Len(text)) \o text
             ELSE text

(* ---------------------------- AddressCodec ----------------------------- *)
\* i.to_string() of a non-negative integer
RECURSIVE to_string(_)
to_string(n) ==
    IF n < 10 THEN <<48 + n>> ELSE to_string(n \div 10) \o <<48 + (n % 10)>>

\* format!("{:0w}", n) of an integer: zeros in front, up to the width
format_int(n, width) ==
    LET s == to_string(n)
    IN  IF Len(s) < width THEN repeat(48, width - Len(s)) \o s ELSE s

\* format!("{:0w}", s) of a string: the 0 flag acts on numbers only, a string
\* is left-aligned and filled with spaces up to the width
format_str(s, width) ==
    IF Len(s) < width THEN s \o repeat(32, width - Len(s)) ELSE s

\* the value of one digit character in from_str_radix: 0-9, a-z, A-Z;
\* -1 for any other character
digit_value(c) ==
    IF c >= 48 /\ c <= 57 THEN c - 48
    ELSE IF c >= 97 /\ c <= 122 THEN c - 97 + 10
    ELSE IF c >= 65 /\ c <= 90 THEN c - 65 + 10
    ELSE -1

RECURSIVE parse_digits(_, _, _, _)
parse_digits(s, radix, k, acc) ==
    IF k > Len(s) THEN Ok(acc)
    ELSE LET d == digit_value(s[k])
         IN  IF d < 0 \/ d >= radix THEN Panic
             ELSE parse_digits(s, radix, k + 1, acc * radix + d)

\* BigInt::parse_bytes(s, radix).unwrap() and
\* BigInt::from_str_radix(s, radix).unwrap(): the empty string and a string
\* with a character that is no digit of the radix give None / Err, and the
\* unwrap panics.  (Signs and '_' do not occur in the strings of this model.)
parse_radix(s, radix) ==
    IF s = <<>> THEN Panic ELSE parse_digits(s, radix, 1, 0)

\* address.split(':')
RECURSIVE split(_, _)
split(s, sep) ==
    IF \E i \in 1 .. Len(s) : s[i] = sep
    THEN LET i == CHOOSE i \in 1 .. Len(s) :
                      s[i] = sep /\ \A j \in 1 .. i - 1 : s[j] # sep
         IN  <<SubSeq(s, 1, i - 1)>> \o split(SubSeq(s, i + 1, Len(s)), sep)
    ELSE <<s>>

\* the packed location: page, volume, shelf, wall, read as one decimal number
loc_str(wall, shelf, volume, page) == page \o volume \o shelf \o wall

get_page(address) ==
    LET parts == split(address, 58)
    IN  IF Len(parts) < 5 THEN Panic        \* parts[4]: index out of bounds
        ELSE
        LET hex_addr == parts[1]
            wall     == parts[2]
            shelf    == parts[3]
            volume   == format_str(parts[4], 2)
            page     == format_str(parts[5], 3)
            loc_int  == parse_radix(loc_str(wall, shelf, volume, page), 10)
            loc_mult == calculate_loc_mult(LENGTH_OF_PAGE)
            comb     == parse_radix(hex_addr, 36)
        IN  IF ~loc_int.ok \/ ~comb.ok THEN Panic
            ELSE LET key    == comb.val - loc_int.val * loc_mult
                     result == to_text(key)
                 IN  IF Len(result) # LENGTH_OF_PAGE THEN Panic  \* assert_eq!
                     ELSE Ok(result)

\* verify_page: a panic of get_page is a panic of verify_page
verify_page(original, address) ==
    LET got == get_page(address)
    IN  IF ~got.ok THEN Panic
        ELSE LET retrieved        == trim_end_matches(got.val, PAD_CHAR)
                 original_trimmed == trim_end_matches(original, PAD_CHAR)
             IN  IF Len(original_trimmed) # Len(retrieved) THEN Ok(FALSE)
                 ELSE Ok(original_trimmed = retrieved)

\* a location coordinate is <<wall, shelf, volume, page>>, as search draws it

\* lines 181-193 of search: the address of search_str at coordinate c
make_address(search_str, c) ==
    LET wall       == to_string(c[1])
        shelf      == to_string(c[2])
        volume     == format_int(c[3], 2)
        page       == format_int(c[4], 3)
        loc_int    == parse_radix(loc_str(wall, shelf, volume, page), 10)
        loc_mult   == calculate_loc_mult(LENGTH_OF_PAGE)
        search_num == string_to_number(search_str)
        hex_addr   == int_to_base36(search_num + loc_int.val * loc_mult)
    IN  hex_addr \o <<58>> \o wall \o <<58>> \o shelf \o <<58>> \o volume
            \o <<58>> \o page

\* search, with the coordinate the generator draws as a parameter
search(search_str, c) ==
    IF Len(search_str) # LENGTH_OF_PAGE THEN Panic            \* assert_eq!
    ELSE LET address == make_address(search_str, c)
             v       == verify_page(search_str, address)
         IN  IF ~v.ok \/ ~v.val THEN Panic ELSE Ok(address)

(* ------------------------ PageChunker, container ----------------------- *)
\* lines 225-237 of encode_file: chunks(LENGTH_OF_PAGE), a short last chunk
\* right-padded with PAD_CHAR
RECURSIVE split_pages(_)
split_pages(text) ==
    IF text = <<>> THEN <<>>
    ELSE IF Len(text) < LENGTH_OF_PAGE
         THEN <<text \o repeat(PAD_CHAR, LENGTH_OF_PAGE - Len(text))>>
         ELSE <<SubSeq(text, 1, LENGTH_OF_PAGE)>>
                  \o split_pages(SubSeq(text, LENGTH_OF_PAGE + 1, Len(text)))

\* lines 306-310 of decode_file: the page up to its last character that is
\* not PAD_CHAR, the empty string when there is none
strip_page(page_content) ==
    IF \E i \in 1 .. Len(page_content) : page_content[i] # PAD_CHAR
    THEN LET last_non_period ==
                 CHOOSE i \in 1 .. Len(page_content) :
                     /\ page_content[i] # PAD_CHAR
                     /\ \A j \in i + 1 .. Len(page_content) : page_content[j] = PAD_CHAR
         IN  SubSeq(page_content, 1, last_non_period)
    ELSE <<>>

\* decoded_chunks.join("")
RECURSIVE join(_)
join(strs) == IF strs = <<>> THEN <<>> ELSE Head(strs) \o join(Tail(strs))

\* bytes.truncate(n)
truncate(bytes, n) == SubSeq(bytes, 1, Min(n, Len(bytes)))

\* collect that appends on completion: the result goes to the first free slot
collect_on_completion(results, done, i, v) ==
    [results EXCEPT ![Cardinality(done) + 1] = v]

\* the fixed-order result container of par_iter().map(..).collect(): the
\* result of item i goes to slot i, whatever items are done already
collect(results, done, i, v) == [results EXCEPT ![i] = v]

\* a file on disk
Absent == [exists |-> FALSE, data |-> <<>>]
File(d) == [exists |-> TRUE, data |-> d]

\* lines 270-275 of encode_file: the container's lines
container_lines(ext, size, locs) ==
    <<ext, to_string(size)>> \o [i \in 1 .. Len(locs) |-> locs[i][2]]

\* encode_may_create without the second pass: the file is created as soon as
\* every page has an address
encode_may_create_unverified(chs, loc, ver) == loc = 1 .. Len(chs)

\* line 267 of encode_file is reached when the map of lines 240-247 has
\* collected every page's address and the pass of lines 250-255 has found no
\* failure
encode_may_create(chs, loc, ver) ==
    loc = 1 .. Len(chs) /\ ver = 1 .. Len(chs)

\* line 314 of decode_file is reached when the map of lines 303-312 has
\* collected every page
decode_may_join(locs, dec) == dec = 1 .. Len(locs)

(* ------------------------------- state --------------------------------- *)
VARIABLES
    overflow_checks,  \* the build profile: u8 overflow panics (TRUE) or wraps
    op,               \* the command main runs: "none", "encode", "decode"
    pc,               \* where it is: "idle", "map", "write", "convert",
                      \* "done", "error" (Err returned), "panicked"
    contents,         \* encode_file: the bytes of the input file
    extension,        \* encode_file: the input file's extension
    chunks,           \* encode_file: the pages
    locations,        \* encode_file: the (page, address) pairs, by slot
    located,          \* encode_file: the pages search has returned for
    verified,         \* encode_file: the pairs the second pass has verified
    babelFile,        \* the container file on disk
    encoded,          \* babelFile was written by encode_file from contents
    dec_locations,    \* decode_file: the address lines
    original_size,    \* decode_file: the byte length of line 2
    decoded_chunks,   \* decode_file: the stripped pages, by slot
    decoded,          \* decode_file: the address lines get_page has returned for
    decoded_text,     \* decode_file: the joined text
    outFile,          \* the decoded file on disk
    call              \* a call of one codec function: [fn, arg, ret]

fileVars == <<op, pc, contents, extension, chunks, locations, located, verified,
              babelFile, encoded, dec_locations, original_size, decoded_chunks,
              decoded, decoded_text, outFile>>
vars == <<overflow_checks, fileVars, call>>

NoCall == [fn |-> "none", arg |-> <<>>, ret |-> <<>>]

(* ------------------------------- inputs -------------------------------- *)
\* byte values of input files: 0 is "aa", 255 is "jv", the largest code
ByteSamples == {0, 65, 255}

RECURSIVE SeqsUpTo(_, _)
SeqsUpTo(S, n) ==
    IF n = 0 THEN {<<>>}
    ELSE LET shorter == SeqsUpTo(S, n - 1)
         IN  shorter \cup {Append(q, x) : q \in {r \in shorter : Len(r) = n - 1}, x \in S}

\* the coordinates the generator draws in the file operations
CoordSamples ==
    {<<0, 0, 0, 0>>,
     <<NUM_WALLS - 1, NUM_SHELVES - 1, NUM_VOLUMES - 1, Min(MaxPageIdx, NUM_PAGES - 1)>>}

\* "txt"
ExtTxt == <<116, 120, 116>>

\* containers that encode_file did not write
\*   pages "ab." and "cd.": content that ends in '.' on a page that is not
\*   the last
DottedContainer ==
    <<ExtTxt, <<50>>,
      make_address(<<97, 98, 46>>, <<0, 0, 0, 0>>),
      make_address(<<99, 100, 46>>, <<1, 2, 3, 4>>)>>
\*   page "cna" and then an address of four fields
BrokenContainer ==
    <<ExtTxt, <<49>>,
      make_address(<<99, 110, 97>>, <<0, 0, 0, 0>>),
      <<49, 58, 48, 58, 48, 58, 48, 48>>>>
\*   pages "a,a" and "aaa": a character that is no letter
CommaContainer ==
    <<ExtTxt, <<49>>, make_address(<<97, 44, 97>>, <<0, 0, 0, 0>>)>>
\*   no lines at all, and a byte length that is no number
EmptyContainer == <<>>
HeaderContainer == <<ExtTxt, <<120>>>>

ForeignContainers ==
    {DottedContainer, BrokenContainer, CommaContainer, EmptyContainer, HeaderContainer}

(* ----------------------------- encode_file ----------------------------- *)
Init ==
    /\ overflow_checks \in BOOLEAN
    /\ op = "none"
    /\ pc = "idle"
    /\ extension \in {<<>>, ExtTxt}
    /\ chunks = <<>>
    /\ locations = <<>>
    /\ located = {}
    /\ verified = {}
    \* an input file of any contents, the container absent or an older one;
    \* or an empty input file and any container
    /\ \/ /\ contents \in SeqsUpTo(ByteSamples, MaxBytes)
          /\ babelFile \in {Absent, File(DottedContainer)}
       \/ /\ contents = <<>>
          /\ babelFile \in {File(c) : c \in ForeignContainers}
    /\ encoded = FALSE
    /\ dec_locations = <<>>
    /\ original_size = 0
    /\ decoded_chunks = <<>>
    /\ decoded = {}
    /\ decoded_text = <<>>
    /\ outFile = Absent
    /\ call = NoCall

\* lines 204-237: read the file, convert, check the conversion, split
EncodeStart ==
    /\ pc = "idle"
    /\ op' = "encode"
    /\ LET babel_text == bytes_to_babel_text(contents)
           test_bytes == babel_text_to_bytes(babel_text, overflow_checks)
       IN  IF test_bytes.ok /\ test_bytes.val = contents
           THEN /\ pc' = "map"
                /\ chunks' = split_pages(babel_text)
                /\ locations' = [i \in 1 .. Len(split_pages(babel_text)) |-> <<>>]
           ELSE /\ pc' = "panicked"
                /\ UNCHANGED <<chunks, locations>>
    /\ UNCHANGED <<overflow_checks, contents, extension, located, verified,
                   babelFile, encoded, dec_locations, original_size,
                   decoded_chunks, decoded, decoded_text, outFile, call>>

\* lines 240-247: one worker's item; the coordinate is the generator's draw
SearchPage(i, c) ==
    /\ op = "encode" /\ pc = "map"
    /\ i \in (1 .. Len(chunks)) \ located
    /\ LET location == search(chunks[i], c)
       IN  IF location.ok
           THEN /\ locations' = collect(locations, located, i, <<chunks[i], location.val>>)
                /\ located' = located \cup {i}
                /\ pc' = pc
           ELSE /\ pc' = "panicked"
                /\ UNCHANGED <<locations, located>>
    /\ UNCHANGED <<overflow_checks, op, contents, extension, chunks, verified,
                   babelFile, encoded, dec_locations, original_size,
                   decoded_chunks, decoded, decoded_text, outFile, call>>

\* lines 250-255: one item of the second pass over the collected pairs
VerifyPair(i) ==
    /\ op = "encode" /\ pc = "map"
    /\ located = 1 .. Len(chunks)
    /\ i \in (1 .. Len(chunks)) \ verified
    /\ LET v == verify_page(locations[i][1], locations[i][2])
       IN  IF v.ok /\ v.val
           THEN verified' = verified \cup {i} /\ pc' = pc
           ELSE verified' = verified /\ pc' = "panicked"
    /\ UNCHANGED <<overflow_checks, op, contents, extension, chunks, locations,
                   located, babelFile, encoded, dec_locations, original_size,
                   decoded_chunks, decoded, decoded_text, outFile, call>>

\* line 267: fs::File::create truncates or creates the container
CreateOutput ==
    /\ op = "encode" /\ pc = "map"
    /\ encode_may_create(chunks, located, verified)
    /\ babelFile' = File(<<>>)
    /\ pc' = "write"
    /\ UNCHANGED <<overflow_checks, op, contents, extension, chunks, locations,
                   located, verified, encoded, dec_locations, original_size,
                   decoded_chunks, decoded, decoded_text, outFile, call>>

\* lines 270-279: the lines are written and flushed
WriteOutput ==
    /\ op = "encode" /\ pc = "write"
    /\ babelFile' = File(container_lines(extension, Len(contents), locations))
    /\ encoded' = TRUE
    /\ pc' = "done"
    /\ UNCHANGED <<overflow_checks, op, contents, extension, chunks, locations,
                   located, verified, dec_locations, original_size,
                   decoded_chunks, decoded, decoded_text, outFile, call>>

(* ----------------------------- decode_file ----------------------------- *)
\* lines 283-300: read the container, its two header lines, its addresses;
\* main runs it at first, or after an encode
DecodeStart ==
    /\ \/ pc = "idle"
       \/ op = "encode" /\ pc = "done"
    /\ op' = "decode"
    /\ LET lines == babelFile.data
           \* Err: no such file, no first line, or a second line that is
           \* no number
           size  == IF babelFile.exists /\ Len(lines) >= 2
                    THEN parse_radix(lines[2], 10) ELSE Panic
       IN  IF size.ok
           THEN /\ pc' = "map"
                /\ original_size' = size.val
                /\ dec_locations' = SubSeq(lines, 3, Len(lines))
                /\ decoded_chunks' = [i \in 1 .. Len(lines) - 2 |-> <<>>]
           ELSE /\ pc' = "error"
                /\ UNCHANGED <<original_size, dec_locations, decoded_chunks>>
    /\ UNCHANGED <<overflow_checks, contents, extension, chunks, locations,
                   located, verified, babelFile, encoded, decoded,
                   decoded_text, outFile, call>>

\* lines 303-312: one worker's item
DecodePage(i) ==
    /\ op = "decode" /\ pc = "map"
    /\ i \in (1 .. Len(dec_locations)) \ decoded
    /\ LET page_content == get_page(dec_locations[i])
       IN  IF page_content.ok
           THEN /\ decoded_chunks' =
                       collect(decoded_chunks, decoded, i, strip_page(page_content.val))
                /\ decoded' = decoded \cup {i}
                /\ pc' = pc
           ELSE /\ pc' = "panicked"
                /\ UNCHANGED <<decoded_chunks, decoded>>
    /\ UNCHANGED <<overflow_checks, op, contents, extension, chunks, locations,
                   located, verified, babelFile, encoded, dec_locations,
                   original_size, decoded_text, outFile, call>>

\* line 314
JoinChunks ==
    /\ op = "decode" /\ pc = "map"
    /\ decode_may_join(dec_locations, decoded)
    /\ decoded_text' = join(decoded_chunks)
    /\ pc' = "convert"
    /\ UNCHANGED <<overflow_checks, op, contents, extension, chunks, locations,
                   located, verified, babelFile, encoded, dec_locations,
                   original_size, decoded_chunks, decoded, outFile, call>>

\* lines 317-334: convert, truncate, write
ConvertAndWrite ==
    /\ op = "decode" /\ pc = "convert"
    /\ LET bytes == babel_text_to_bytes(decoded_text, overflow_checks)
       IN  IF bytes.ok
           THEN /\ outFile' = File(truncate(bytes.val, original_size))
                /\ pc' = "done"
           ELSE /\ outFile' = outFile
                /\ pc' = "panicked"
    /\ UNCHANGED <<overflow_checks, op, contents, extension, chunks, locations,
                   located, verified, babelFile, encoded, dec_locations,
                   original_size, decoded_chunks, decoded, decoded_text, call>>

Next ==
    \/ EncodeStart
    \/ \E i \in 1 .. Len(chunks), c \in CoordSamples : SearchPage(i, c)
    \/ \E i \in 1 .. Len(chunks) : VerifyPair(i)
    \/ CreateOutput
    \/ WriteOutput
    \/ DecodeStart
    \/ \E i \in 1 .. Len(dec_locations) : DecodePage(i)
    \/ JoinChunks
    \/ ConvertAndWrite

Spec == Init /\ [][Next]_vars

(* ---------------- the codec functions, one call at a time -------------- *)
\* no file operation runs
NoFileOp ==
    /\ op = "none" /\ pc = "idle"
    /\ contents = <<>> /\ extension = <<>>
    /\ chunks = <<>> /\ locations = <<>> /\ located = {} /\ verified = {}
    /\ babelFile = Absent /\ encoded = FALSE
    /\ dec_locations = <<>> /\ original_size = 0
    /\ decoded_chunks = <<>> /\ decoded = {} /\ decoded_text = <<>>
    /\ outFile = Absent

Called(fn, arg, ret) ==
    /\ call' = [fn |-> fn, arg |-> arg, ret |-> ret]
    /\ UNCHANGED <<overflow_checks, fileVars>>

\* every string of n symbols of the table
RECURSIVE Strings(_, _)
Strings(S, n) ==
    IF n = 0 THEN {<<>>}
    ELSE {Append(q, x) : q \in Strings(S, n - 1), x \in S}

Symbols29 == {digits29[i] : i \in 1 .. Len(digits29)}

\* ---- PageNumberCodec: string_to_number, then to_text of its result
InitPage ==
    /\ NoFileOp
    /\ overflow_checks = FALSE
    /\ call \in {[fn |-> "none", arg |-> p, ret |-> <<>>] :
                    p \in Strings(Symbols29, LENGTH_OF_PAGE)}

CallStringToNumber ==
    /\ call.fn = "none"
    /\ Called("string_to_number", call.arg, string_to_number(call.arg))

CallToText ==
    /\ call.fn = "string_to_number"
    /\ Called("to_text", call.arg, to_text(call.ret))

NextPage == CallStringToNumber \/ CallToText

SpecPage == InitPage /\ [][NextPage]_vars

\* ---- AddressCodec: search at a drawn coordinate, then get_page
\* 'a', 'b', ' ', '.': the zero symbol, a letter, and the two largest symbols
PageSymbolSamples == {97, 98, 32, 46}

CoordDomain ==
    {0, NUM_WALLS - 1} \X {0, NUM_SHELVES - 1} \X {0, 9, 10, NUM_VOLUMES - 1}
        \X (0 .. Min(MaxPageIdx, NUM_PAGES - 1))

InitAddress ==
    /\ NoFileOp
    /\ overflow_checks = FALSE
    /\ call \in {[fn |-> "none", arg |-> [page |-> p, coord |-> c], ret |-> <<>>] :
                    p \in Strings(PageSymbolSamples, LENGTH_OF_PAGE), c \in CoordDomain}

CallSearch ==
    /\ call.fn = "none"
    /\ Called("search", call.arg, search(call.arg.page, call.arg.coord))

CallGetPage ==
    /\ call.fn = "search"
    /\ call.ret.ok
    /\ Called("get_page", call.arg, get_page(call.ret.val))

NextAddress == CallSearch \/ CallGetPage

SpecAddress == InitAddress /\ [][NextAddress]_vars

\* ---- get_page of an address that search did not write: the number in the
\* base-36 field is key + locInt(made) * 30^LENGTH_OF_PAGE, the four fields
\* are those of the coordinate `written`, in the widths vw and pw
KeySamples ==
    {0, 1, 29,
     string_to_number(repeat(PAD_CHAR, LENGTH_OF_PAGE)),
     string_to_number(repeat(PAD_CHAR, LENGTH_OF_PAGE)) + 1,
     calculate_loc_mult(LENGTH_OF_PAGE) - 1,
     calculate_loc_mult(LENGTH_OF_PAGE),
     calculate_loc_mult(LENGTH_OF_PAGE) + 1}

ForeignCoords ==
    {<<0, 0, 0, 0>>, <<1, 2, 5, Min(MaxPageIdx, NUM_PAGES - 1)>>,
     <<NUM_WALLS - 1, NUM_SHELVES - 1, NUM_VOLUMES - 1, 0>>}

\* locInt of a coordinate, as search packs it
loc_int_of(c) ==
    parse_radix(loc_str(to_string(c[1]), to_string(c[2]),
                        format_int(c[3], 2), format_int(c[4], 3)), 10).val

\* the address string of a foreign address
written_address(a) ==
    int_to_base36(a.key + loc_int_of(a.made) * calculate_loc_mult(LENGTH_OF_PAGE))
        \o <<58>> \o to_string(a.written[1])
        \o <<58>> \o to_string(a.written[2])
        \o <<58>> \o format_int(a.written[3], a.vw)
        \o <<58>> \o format_int(a.written[4], a.pw)

\* the page number get_page recovers from it (lines 345-349)
recovered_key(a) ==
    a.key + (loc_int_of(a.made) - loc_int_of(a.written))
                * calculate_loc_mult(LENGTH_OF_PAGE)

InitForeign ==
    /\ NoFileOp
    /\ overflow_checks = FALSE
    /\ call \in {[fn |-> "none",
                  arg |-> [key |-> k, made |-> m, written |-> w, vw |-> vw, pw |-> pw],
                  ret |-> <<>>] :
                    k \in KeySamples, m \in ForeignCoords, w \in ForeignCoords,
                    vw \in {1, 2}, pw \in {1, 3}}

CallGetPageForeign ==
    /\ call.fn = "none"
    /\ Called("get_page", call.arg, get_page(written_address(call.arg)))

NextForeign == CallGetPageForeign

SpecForeign == InitForeign /\ [][NextForeign]_vars

\* ---- ByteTextCodec: bytes_to_babel_text and babel_text_to_bytes of its
\* result; babel_text_to_bytes of a text that is not its result
AllBytes == 0 .. 255

\* 'a', 'j', 'k', 'z', ',', ' ', '.', '{', 'A'
TextSymbolSamples == {97, 106, 107, 122, 44, 32, 46, 123, 65}

InitBytes ==
    /\ NoFileOp
    /\ overflow_checks \in BOOLEAN
    /\ call \in
         {[fn |-> "none", arg |-> b, ret |-> <<>>] :
             b \in {<<v>> : v \in AllBytes} \cup SeqsUpTo(ByteSamples \cup {26, 234}, MaxBytes)}
         \cup
         {[fn |-> "text", arg |-> t, ret |-> <<>>] :
             t \in SeqsUpTo(TextSymbolSamples, MaxBytes + 1)}

CallBytesToBabelText ==
    /\ call.fn = "none"
    /\ Called("bytes_to_babel_text", call.arg, bytes_to_babel_text(call.arg))

CallBabelTextToBytes ==
    /\ call.fn = "bytes_to_babel_text"
    /\ Called("babel_text_to_bytes", call.arg,
              babel_text_to_bytes(call.ret, overflow_checks))

CallBabelTextToBytesOfText ==
    /\ call.fn = "text"
    /\ Called("babel_text_to_bytes_of_text", call.arg,
              babel_text_to_bytes(call.arg, overflow_checks))

NextBytes ==
    CallBytesToBabelText \/ CallBabelTextToBytes \/ CallBabelTextToBytesOfText

SpecBytes == InitBytes /\ [][NextBytes]_vars

(* ------------------------------- claims -------------------------------- *)
AllOf(n) == 1 .. n
Letters == 97 .. 122

\* C1: encode_file of any byte sequence, then decode_file of the container
\* it wrote, ends with the output file holding exactly those bytes: neither
\* operation panics or errs, and the decoded file equals the input.
C1_EncodeDecodeRoundTrip ==
    /\ op = "encode" => pc # "panicked"
    /\ op = "decode" /\ encoded => pc \notin {"panicked", "error"}
    /\ op = "decode" /\ encoded /\ pc = "done" => outFile = File(contents)

\* C2: for every page p and coordinate c, search(p, c) returns an address
\* and get_page of that address returns p.
C2_AddressRoundTrip ==
    /\ call.fn = "search" => call.ret.ok
    /\ call.fn = "get_page" => call.ret = Ok(call.arg.page)

\* C3: for every page p, to_text(string_to_number(p)) is p, a string of
\* exactly LENGTH_OF_PAGE symbols (the page of all 'a', number 0, included).
C3_PageRoundTrip ==
    call.fn = "to_text" =>
        /\ Len(call.ret) = LENGTH_OF_PAGE
        /\ call.ret = call.arg

\* C4: bytes_to_babel_text writes each byte v as the letters 'a' + v div 26,
\* 'a' + v mod 26, 2 * len(b) letters in all, and babel_text_to_bytes of that
\* text returns b without a panic, under either build profile and on either
\* path.
C4_ByteRoundTrip ==
    /\ call.fn = "bytes_to_babel_text" =>
          /\ Len(call.ret) = 2 * Len(call.arg)
          /\ \A i \in 1 .. Len(call.arg) :
                /\ call.ret[2 * i - 1] = 97 + (call.arg[i] \div 26)
                /\ call.ret[2 * i] = 97 + (call.arg[i] % 26)
    /\ call.fn = "babel_text_to_bytes" => call.ret = Ok(call.arg)

\* the largest byte value has come back on the parallel paths
C4_Witness ==
    /\ call.fn = "babel_text_to_bytes"
    /\ Len(call.arg) > PAR_BYTES_THRESHOLD
    /\ 2 * Len(call.arg) > PAR_CHARS_THRESHOLD
    /\ call.arg[Len(call.arg)] = 255
    /\ call.ret = Ok(call.arg)

\* C5: get_page of an address whose recovered page number is negative or is
\* at least 30^LENGTH_OF_PAGE fails; it returns no page.
C5_OutOfRangeFails ==
    call.fn = "get_page"
        /\ (\/ recovered_key(call.arg) < 0
            \/ recovered_key(call.arg) >= calculate_loc_mult(LENGTH_OF_PAGE))
        => ~call.ret.ok

\* C6: babel_text_to_bytes of a text that, its trailing pad characters
\* removed, holds a character outside a-z fails; it returns no bytes.  (Stated
\* for the texts of even length, where every character is read in a pair.)
C6_InvalidAlphabetFails ==
    call.fn = "babel_text_to_bytes_of_text"
        /\ Len(trim_end_matches(call.arg, PAD_CHAR)) % 2 = 0
        /\ (\E i \in 1 .. Len(trim_end_matches(call.arg, PAD_CHAR)) :
                call.arg[i] \notin Letters)
        => ~call.ret.ok

\* C7: get_page decodes an address by the numeric values of its fields: the
\* address with the volume and page index written in any width decodes as
\* the address with them written in 2 and 3 digits does.  (Stated for the
\* addresses of a page at its own coordinate, the ones search makes.)
C7_WidthIndependent ==
    call.fn = "get_page"
        /\ call.arg.made = call.arg.written
        /\ call.arg.key > 0
        /\ call.arg.key <= string_to_number(repeat(PAD_CHAR, LENGTH_OF_PAGE))
        => call.ret = get_page(written_address([call.arg EXCEPT !.vw = 2, !.pw = 3]))

\* C8: a file operation is all-or-nothing.  The container changes only in a
\* step of encode_file taken when every page has its address and every pair
\* has passed the second verification; the decoded file changes only in the
\* step of decode_file taken when every address has decoded; a step that
\* ends in a panic or an error comes before any of these and changes no
\* file, and nothing follows it.
C8_AllOrNothing ==
    [][/\ babelFile' # babelFile =>
             /\ op = "encode" /\ pc \in {"map", "write"}
             /\ located = AllOf(Len(chunks))
             /\ verified = AllOf(Len(chunks))
             /\ \A i \in AllOf(Len(chunks)) :
                   verify_page(chunks[i], locations[i][2]) = Ok(TRUE)
       /\ outFile' # outFile =>
             /\ op = "decode" /\ pc = "convert"
             /\ decoded = AllOf(Len(dec_locations))
             /\ \A i \in AllOf(Len(dec_locations)) : get_page(dec_locations[i]).ok
       /\ pc' \in {"panicked", "error"} =>
             /\ pc \in {"idle", "map", "convert", "panicked", "error"}
             /\ UNCHANGED <<babelFile, outFile>>
       /\ pc \in {"panicked", "error"} => UNCHANGED vars]_vars

\* encode_file has panicked on one page after another page got its address,
\* and there is no container
C8_Witness ==
    /\ op = "encode" /\ pc = "panicked"
    /\ located # {}
    /\ babelFile = Absent

\* C9: whatever the order in which the workers finish, slot i of the
\* collected pairs holds page i with an address of page i, line i + 2 of the
\* written container is that address, and slot i of the decoded chunks is
\* the stripped page of address line i: the joined text is that of the
\* sequential map.
C9_IndexOrder ==
    /\ op = "encode" =>
          \A i \in located :
             /\ locations[i] # <<>>
             /\ locations[i][1] = chunks[i]
             /\ get_page(locations[i][2]) = Ok(chunks[i])
    /\ op = "encode" /\ pc = "done" =>
          /\ Len(babelFile.data) = Len(chunks) + 2
          /\ \A i \in AllOf(Len(chunks)) :
                get_page(babelFile.data[i + 2]) = Ok(chunks[i])
    /\ op = "decode" =>
          \A i \in decoded :
             decoded_chunks[i] = strip_page(get_page(dec_locations[i]).val)
    /\ op = "decode" /\ pc \in {"convert", "done"} =>
          decoded_text =
              join([i \in AllOf(Len(dec_locations)) |->
                       strip_page(get_page(dec_locations[i]).val)])

\* the second of two different pages has its address before the first
C9_Witness ==
    /\ op = "encode" /\ pc = "map"
    /\ Len(chunks) = 2 /\ chunks[1] # chunks[2]
    /\ located = {2}

\* C10: in the text decode_file joins, only the last page has lost its
\* trailing '.' symbols; every other page is there whole.
C10_StripLastPageOnly ==
    op = "decode" /\ pc \in {"convert", "done"} =>
        decoded_text =
            join([i \in AllOf(Len(dec_locations)) |->
                     IF i = Len(dec_locations)
                     THEN strip_page(get_page(dec_locations[i]).val)
                     ELSE get_page(dec_locations[i]).val])

=============================================================================
